---- MODULE Spec2Model ----
(***************************************************************************)
(* Model of topics_app.py: the identifier validators, the similarity test, *)
(* the table store and the submission wizard (details -> topic -> confirm) *)
(* run by several browser sessions against one backing table.              *)
(*                                                                         *)
(* A string is a sequence of one-character strings, so that strip(),       *)
(* lower(), startswith() and the regular expressions are computed.         *)
(***************************************************************************)
EXTENDS Integers, Sequences, FiniteSets, TLC

\* ------------------------------------------------------------------ bounds
\* The clock takes the values 0..MaxClock: Save is pressed MaxClock times at most.
MaxClock == 2

\* ----------------------------------------------------------------- strings
AsciiDigits == {"0", "1", "2", "3", "4", "5", "6", "7", "8", "9"}

\* two of the decimal digits outside ASCII, each held as one character: the
\* Arabic-Indic digits zero (U+0660) and eight (U+0668)
ArabicZero == "U+0660"

ArabicEight == "U+0668"

\* the characters \d matches in a str pattern and int() reads: the decimal
\* digits of Unicode
Digits == AsciiDigits \cup {ArabicZero, ArabicEight}

Whitespace == {" ", "\t", "\n"}

DigitVal ==
  [c \in Digits |->
     CASE c = "0" -> 0 [] c = "1" -> 1 [] c = "2" -> 2 [] c = "3" -> 3
       [] c = "4" -> 4 [] c = "5" -> 5 [] c = "6" -> 6 [] c = "7" -> 7
       [] c = "8" -> 8 [] c = "9" -> 9
       [] c = ArabicZero -> 0 [] c = ArabicEight -> 8]

UpperToLower ==
  [c \in {"A", "B", "C", "D", "E", "I", "Q", "T", "U", "X", "Y"} |->
     CASE c = "A" -> "a" [] c = "B" -> "b" [] c = "C" -> "c" [] c = "D" -> "d"
       [] c = "E" -> "e" [] c = "I" -> "i" [] c = "Q" -> "q" [] c = "T" -> "t"
       [] c = "U" -> "u" [] c = "X" -> "x" [] c = "Y" -> "y"]

\* str.lower(), character by character
lower(s) ==
  [i \in 1..Len(s) |-> IF s[i] \in DOMAIN UpperToLower THEN UpperToLower[s[i]] ELSE s[i]]

RECURSIVE lstrip(_)
lstrip(s) == IF s # <<>> /\ Head(s) \in Whitespace THEN lstrip(Tail(s)) ELSE s

RECURSIVE rstrip(_)
rstrip(s) ==
  IF s # <<>> /\ s[Len(s)] \in Whitespace THEN rstrip(SubSeq(s, 1, Len(s) - 1)) ELSE s

\* str.strip()
strip(s) == rstrip(lstrip(s))

\* str.startswith(p)
startswith(s, p) == Len(s) >= Len(p) /\ SubSeq(s, 1, Len(p)) = p

\* Python's "a in b" on strings: a is a contiguous substring of b
contains(b, a) ==
  \E i \in 0..(Len(b) - Len(a)) : SubSeq(b, i + 1, i + Len(a)) = a

\* ------------------------------------------------------------------ config
REG_PREFIX == <<"2", "3", "1", "3", "0", "9", "1", "0", "8", "3", "1">>

REG_MAX_LAST == 48

FORBIDDEN_ROLL_SUFFIX == {<<"0", "8">>, <<"2", "9">>, <<"1", "3">>}

\* SIMILARITY_THRESHOLD = 0.5 as the fraction ThresholdNum / ThresholdDen
ThresholdNum == 1

ThresholdDen == 2

\* -------------------------------------------------------------- validators
AllDigits(s) == \A i \in 1..Len(s) : s[i] \in Digits

\* int() of a two-digit string
int2(s) == 10 * DigitVal[s[1]] + DigitVal[s[2]]

validate_regno_wide(r) ==
  IF ~(Len(r) = 13 /\ AllDigits(r))
    THEN [ok |-> FALSE, msg |-> "Register number must be exactly 13 digits."]
  ELSE IF ~startswith(r, REG_PREFIX)
    THEN [ok |-> FALSE, msg |-> "Register must start with prefix."]
  ELSE IF ~(0 <= int2(SubSeq(r, 12, 13)) /\ int2(SubSeq(r, 12, 13)) <= REG_MAX_LAST + 1)
    THEN [ok |-> FALSE, msg |-> "Last two digits must be between 01 and max."]
  ELSE [ok |-> TRUE, msg |-> ""]

\* validate_regno without the prefix test
validate_regno_any_prefix(r) ==
  IF ~(Len(r) = 13 /\ AllDigits(r))
    THEN [ok |-> FALSE, msg |-> "Register number must be exactly 13 digits."]
  ELSE IF ~(1 <= int2(SubSeq(r, 12, 13)) /\ int2(SubSeq(r, 12, 13)) <= REG_MAX_LAST)
    THEN [ok |-> FALSE, msg |-> "Last two digits must be between 01 and max."]
  ELSE [ok |-> TRUE, msg |-> ""]

\* validate_regno that asks for one digit more
validate_regno_long(r) ==
  IF ~(Len(r) = 14 /\ AllDigits(r))
    THEN [ok |-> FALSE, msg |-> "Register number must be exactly 13 digits."]
  ELSE IF ~startswith(r, REG_PREFIX)
    THEN [ok |-> FALSE, msg |-> "Register must start with prefix."]
  ELSE IF ~(1 <= int2(SubSeq(r, 13, 14)) /\ int2(SubSeq(r, 13, 14)) <= REG_MAX_LAST)
    THEN [ok |-> FALSE, msg |-> "Last two digits must be between 01 and max."]
  ELSE [ok |-> TRUE, msg |-> ""]

validate_regno(r) ==
  IF ~(Len(r) = 13 /\ AllDigits(r))
    THEN [ok |-> FALSE, msg |-> "Register number must be exactly 13 digits."]
  ELSE IF ~startswith(r, REG_PREFIX)
    THEN [ok |-> FALSE, msg |-> "Register must start with prefix."]
  ELSE IF ~(1 <= int2(SubSeq(r, 12, 13)) /\ int2(SubSeq(r, 12, 13)) <= REG_MAX_LAST)
    THEN [ok |-> FALSE, msg |-> "Last two digits must be between 01 and max."]
  ELSE [ok |-> TRUE, msg |-> ""]

\* re.fullmatch(r"^23d12(\d{2})$", r, re.I)
RollShape(r) ==
  /\ Len(r) = 7
  /\ lower(SubSeq(r, 1, 5)) = <<"2", "3", "d", "1", "2">>
  /\ AllDigits(SubSeq(r, 6, 7))

validate_rollno_lax(r) ==
  IF ~RollShape(r)
    THEN [ok |-> FALSE, msg |-> "Roll format must start with 23d12 followed by two digits."]
  ELSE [ok |-> TRUE, msg |-> ""]

validate_rollno(r) ==
  IF ~RollShape(r)
    THEN [ok |-> FALSE, msg |-> "Roll format must start with 23d12 followed by two digits."]
  ELSE IF SubSeq(r, 6, 7) \in FORBIDDEN_ROLL_SUFFIX
    THEN [ok |-> FALSE, msg |-> "Roll suffix is reserved."]
  ELSE [ok |-> TRUE, msg |-> ""]

\* -------------------------------------------------------------- similarity
Min(x, y) == IF x <= y THEN x ELSE y

\* SequenceMatcher.find_longest_match on a[alo..ahi], b[blo..bhi] (no junk:
\* autojunk needs 200 elements): the longest common block; among the longest
\* the one starting earliest in a, then earliest in b.  k = 0: no block.
find_longest_match(a, b, alo, ahi, blo, bhi) ==
  LET blocks == {m \in (alo..ahi) \X (blo..bhi) \X (1..Min(ahi - alo + 1, bhi - blo + 1)) :
                   /\ m[1] + m[3] - 1 <= ahi
                   /\ m[2] + m[3] - 1 <= bhi
                   /\ SubSeq(a, m[1], m[1] + m[3] - 1) = SubSeq(b, m[2], m[2] + m[3] - 1)}
      better(m, n) == \/ m[3] > n[3]
                      \/ m[3] = n[3] /\ m[1] < n[1]
                      \/ m[3] = n[3] /\ m[1] = n[1] /\ m[2] <= n[2]
  IN IF blocks = {} THEN <<alo, blo, 0>>
     ELSE CHOOSE m \in blocks : \A n \in blocks : better(m, n)

\* sum of the sizes of SequenceMatcher.get_matching_blocks()
RECURSIVE matching_size(_, _, _, _, _, _)
matching_size(a, b, alo, ahi, blo, bhi) ==
  IF alo > ahi \/ blo > bhi THEN 0
  ELSE LET m == find_longest_match(a, b, alo, ahi, blo, bhi)
       IN IF m[3] = 0 THEN 0
          ELSE m[3] + matching_size(a, b, alo, m[1] - 1, blo, m[2] - 1)
                    + matching_size(a, b, m[1] + m[3], ahi, m[2] + m[3], bhi)

\* SequenceMatcher(None, a.lower(), b.lower()).ratio() >= threshold, where
\* ratio() = 2.0 * matches / (len(a) + len(b)), and 1.0 when both are empty
is_similar(a, b) ==
  LET la == lower(a)
      lb == lower(b)
      M  == matching_size(la, lb, 1, Len(la), 1, Len(lb))
  IN IF Len(la) + Len(lb) = 0 THEN TRUE
     ELSE 2 * M * ThresholdDen >= ThresholdNum * (Len(la) + Len(lb))

\* the test of the similarity loop for one stored topic t
TopicMatches(topic, t) ==
  \/ lower(t) = lower(topic)
  \/ contains(lower(t), lower(topic))
  \/ contains(lower(topic), lower(t))
  \/ is_similar(topic, t)

\* ------------------------------------------------------------- table store
\* A row is [name, regno, rollno, topic, ts]; register numbers are held as
\* text in the sheet and in the frame.  The backing file is absent or holds
\* a header (the name of its topic column) and rows.  A load returns a frame
\* or None; warned: the load showed its could-not-read warning.
NoFile == [exists |-> FALSE, topic_col |-> "Topic", rows |-> <<>>]

SheetOf(rows) == [exists |-> TRUE, topic_col |-> "Topic", rows |-> rows]

None == [some |-> FALSE, warned |-> FALSE, topic_col |-> "Topic", rows |-> <<>>]

NoneWarned == [some |-> FALSE, warned |-> TRUE, topic_col |-> "Topic", rows |-> <<>>]

Frame(rows) == [some |-> TRUE, warned |-> FALSE, topic_col |-> "Topic", rows |-> rows]

\* code-point order of the characters used
Charset ==
  <<"\t", "\n", " ", "0", "1", "2", "3", "4", "5", "6", "7", "8", "9",
    "A", "B", "C", "D", "E", "I", "Q", "T", "U", "X", "Y",
    "a", "b", "c", "d", "e", "i", "q", "t", "u", "x", "y">>

Ord(c) == CHOOSE i \in 1..Len(Charset) : Charset[i] = c

\* a < b as Python compares str
RECURSIVE StrLess(_, _)
StrLess(a, b) ==
  IF b = <<>> THEN FALSE
  ELSE IF a = <<>> THEN TRUE
  ELSE IF Head(a) = Head(b) THEN StrLess(Tail(a), Tail(b))
  ELSE Ord(Head(a)) < Ord(Head(b))

\* int(s) succeeds (decimal digits, surrounding whitespace allowed)
IsIntText(s) == strip(s) # <<>> /\ AllDigits(strip(s))

RECURSIVE StripZeros(_)
StripZeros(s) == IF Len(s) > 1 /\ Head(s) = "0" THEN StripZeros(Tail(s)) ELSE s

\* int(a) < int(b), computed on the digits (the values exceed 32 bits)
IntLess(a, b) ==
  LET x == StripZeros(strip(a))
      y == StripZeros(strip(b))
  IN Len(x) < Len(y) \/ (Len(x) = Len(y) /\ StrLess(x, y))

\* the order save_df sorts by: int(a) < int(b), or a < b as text
RegLess(numeric, a, b) == IF numeric THEN IntLess(a, b) ELSE StrLess(a, b)

\* stable insertion of row r into rows sorted by register number
RECURSIVE InsertSorted(_, _, _)
InsertSorted(rows, r, numeric) ==
  IF rows = <<>> THEN <<r>>
  ELSE IF RegLess(numeric, r.regno, Head(rows).regno) THEN <<r>> \o rows
  ELSE <<Head(rows)>> \o InsertSorted(Tail(rows), r, numeric)

\* DataFrame.sort_values on the register number
RECURSIVE SortRows(_, _)
SortRows(rows, numeric) ==
  IF rows = <<>> THEN <<>>
  ELSE InsertSorted(SortRows(SubSeq(rows, 1, Len(rows) - 1), numeric),
                    rows[Len(rows)], numeric)

\* pd.read_excel reads a cell whose text is one of its default NA words as a
\* missing value; of those words the ones the alphabet here can spell: "NA"
\* and the empty cell.  A missing value is written back as an empty cell and
\* is held here as the empty text.
NAStrings == {<<"N", "A">>, <<>>}

\* the text of a cell parses as a number (here: a decimal numeral)
IsNumeral(v) == v # <<>> /\ \A i \in 1..Len(v) : v[i] \in AsciiDigits

\* the values of one column of the sheet
Column(rows, col) == [i \in 1..Len(rows) |-> rows[i][col]]

\* the type inference of pd.read_excel on one column: the column becomes
\* numeric when every cell is a numeral or missing
NumericColumn(cells) ==
  \A i \in 1..Len(cells) : cells[i] \in NAStrings \/ IsNumeral(cells[i])

\* a column as pd.read_excel returns it, shown as text: the NA words are
\* missing, and the numerals of a numeric column are numbers (leading zeros
\* are not kept)
read_column(cells) ==
  [i \in 1..Len(cells) |->
     IF cells[i] \in NAStrings THEN <<>>
     ELSE IF NumericColumn(cells) THEN StripZeros(cells[i])
     ELSE cells[i]]

\* Series.astype(str) on a column read by pd.read_excel: a missing value is
\* "nan"; a numeric column that has a missing value holds floats
astype_str(cells) ==
  LET floats == NumericColumn(cells) /\ \E i \in 1..Len(cells) : cells[i] \in NAStrings
      read == read_column(cells)
  IN [i \in 1..Len(cells) |->
        IF read[i] = <<>> THEN <<"n", "a", "n">>
        ELSE IF floats THEN read[i] \o <<".", "0">>
        ELSE read[i]]

\* pd.read_excel(FILE) followed by the astype(str) of the register numbers
\* (the times are text that is neither a numeral nor an NA word)
read_excel(rows) ==
  [i \in 1..Len(rows) |->
     [name   |-> read_column(Column(rows, "name"))[i],
      regno  |-> astype_str(Column(rows, "regno"))[i],
      rollno |-> read_column(Column(rows, "rollno"))[i],
      topic  |-> read_column(Column(rows, "topic"))[i],
      ts     |-> rows[i].ts]]

\* load_existing_df: None when the file is absent, the frame pd.read_excel
\* makes of it, and None with a warning when it cannot be read
load_existing_df(f, readable) ==
  IF ~f.exists THEN None
  ELSE IF readable THEN Frame(read_excel(f.rows))
  ELSE NoneWarned

\* save_df: sort by register number (numerically if every one parses as an
\* int, else as text) and overwrite the whole file
save_df(df) ==
  IF \A i \in 1..Len(df.rows) : IsIntText(df.rows[i].regno)
    THEN SheetOf(SortRows(df.rows, TRUE))
    ELSE SheetOf(SortRows(df.rows, FALSE))

\* load_sheet_df: the store's load(): the stored rows, their register numbers
\* as text, or None when there is no table; a read failure is reported and
\* is None
load_sheet_df(f, readable) ==
  IF ~f.exists THEN None
  ELSE IF readable THEN Frame(f.rows)
  ELSE NoneWarned

\* save_df_to_sheet: the store's save(); the whole table is overwritten when
\* the write succeeds and nothing is written when it fails
save_df_to_sheet(f, df, written) == IF written THEN save_df(df) ELSE f

\* ------------------------------------------------------------------ inputs
Reg(x, y) == REG_PREFIX \o <<x, y>>

Roll(d, x, y) == <<"2", "3", d, "1", "2", x, y>>

\* spellings of the fields of the details form
NameAb == <<"A", "b">>

NamePadded == <<" ", "A", "b", " ">>

NameBlank == <<" ">>

Exit == <<"E", "x", "i", "t">>

Quit == <<"Q", "U", "I", "T">>

QuitPadded == <<"Q", "U", "I", "T", " ">>

Reg07 == Reg("0", "7")

Reg07Padded == <<" ">> \o Reg("0", "7")

Reg48 == Reg("4", "8")

Reg49 == Reg("4", "9")

Roll01 == Roll("d", "0", "1")

Roll01Padded == Roll("d", "0", "1") \o <<"\n">>

Roll08 == Roll("D", "0", "8")

\* what a user may submit in the details form: <<name, register, roll>>
DetailsInputs ==
  { <<NameAb, Reg07, Roll01>>,            \* valid
    <<NamePadded, Reg07Padded, Roll01Padded>>, \* valid after trimming
    <<NameAb, Reg48, Roll01>>,            \* valid, another register number
    <<NameBlank, Reg07, Roll01>>,         \* name empty after trimming
    <<NameAb, Reg49, Roll01>>,            \* register number out of range
    <<NameAb, Reg48, Roll08>>,            \* reserved roll suffix
    <<NameBlank, Reg49, Roll08>>,         \* every field fails
    <<Exit, Reg07, Roll01>>,              \* sentinel in the name
    <<NameAb, Quit, Roll01>>,             \* sentinel in the register number
    <<NameAb, QuitPadded, Roll01>>,       \* sentinel with trailing white space
    <<NameAb, Reg48, lower(Exit)>>,       \* sentinel in the roll number
    <<Exit, Reg49, Roll08>> }             \* sentinel with invalid fields

\* what a user may type into the Topic field
TopicInputs ==
  { <<"a", "b">>, <<"A", "B">>, <<" ", "a", "b">>, <<"x", "y">>, <<"a", "x">>, <<" ">> }

\* the fewer inputs followed when two sessions run side by side
FewDetailsInputs ==
  { <<NamePadded, Reg07Padded, Roll01Padded>>, <<NameAb, Reg48, Roll01>>,
    <<NameAb, Reg49, Roll01>>, <<NameAb, QuitPadded, Roll01>> }

FewTopicInputs == { <<"a", "b">>, <<"A", "B">>, <<" ">> }

\* the inputs of the end-to-end scenario: the name "Asha", the register
\* number as the scenario writes it (prefix, then "007": 14 digits) and the
\* 13-digit register number ending in 07, the roll number "23d1201" and the
\* topic "Edge detection in images"
Asha == <<"A", "s", "h", "a">>

Reg007 == REG_PREFIX \o <<"0", "0", "7">>

EdgeDetection ==
  <<"E", "d", "g", "e", " ", "d", "e", "t", "e", "c", "t", "i", "o", "n", " ",
    "i", "n", " ", "i", "m", "a", "g", "e", "s">>

ScenarioDetailsInputs ==
  { <<Asha, Reg007, Roll01>>, <<Asha, Reg07, Roll01>>, <<NameAb, Reg48, Roll01>> }

ScenarioTopicInputs == { EdgeDetection, <<"a", "b">> }

Sessions == {"s1", "s2"}

\* ------------------------------------------------------------------- state
VARIABLES
  table,     \* the backing table (the sheet)
  now,       \* the clock datetime.now() reads; it has advanced by the next reading
  step,      \* st.session_state.step of each session
  name,      \* st.session_state.name
  regno,     \* st.session_state.regno
  rollno,    \* st.session_state.rollno
  topic,     \* st.session_state.topic
  pc,        \* "idle", or "write": the save handler has merged and not yet written
  existing,  \* the frame the save handler in flight loaded
  df_final,  \* the merged frame the save handler in flight is about to write
  last_run,  \* the latest script run: its session, inputs, outcome and display
  reported,  \* while in confirm: the matches the similarity check that led there displayed
  arg,       \* the argument of the function called on its own: a string, a table
  ret        \* the function called last and what it returned

vars ==
  <<table, now, step, name, regno, rollno, topic, pc, existing, df_final,
    last_run, reported, arg, ret>>

session == <<step, name, regno, rollno, topic>>

\* the call of a function on its own, which no script run of the wizard makes
called == <<arg, ret>>

\* The record of a script run of session s with outcome out.  form: the text
\* fields submitted or displayed; edit_choice, change_choice: the radio
\* buttons read ("none": not rendered); readable: the run's load of the table
\* showed no read warning; corpus, similar: topics_to_check and similar_list;
\* dropped: the rows the merge removed; written: whether the run's write of
\* the table succeeded; clobbered: the rows of the table the write removed;
\* total: the submission count shown.
Ran(s, out) ==
  [sess |-> s, out |-> out, form |-> <<>>, edit_choice |-> "none",
   change_choice |-> "none", readable |-> TRUE, corpus |-> <<>>,
   similar |-> <<>>, dropped |-> <<>>, written |-> FALSE, clobbered |-> <<>>,
   total |-> 0]

\* the outcomes a read of the backing table can have: success or failure
ReadOutcomes == BOOLEAN

\* no similarity check has taken the session to confirm, or the check that
\* did displayed no match
NoReport == <<>>

\* no validator has been called on arg
NotCalled == [fn |-> "none", ok |-> FALSE, msg |-> "", df |-> None]

\* the backing file is absent and every session is at its first script run
WizardInit ==
  /\ table = NoFile
  /\ now = 0
  /\ step = [s \in Sessions |-> "details"]
  /\ name = [s \in Sessions |-> <<>>]
  /\ regno = [s \in Sessions |-> <<>>]
  /\ rollno = [s \in Sessions |-> <<>>]
  /\ topic = [s \in Sessions |-> <<>>]
  /\ pc = [s \in Sessions |-> "idle"]
  /\ existing = [s \in Sessions |-> None]
  /\ df_final = [s \in Sessions |-> None]
  /\ last_run = Ran("s1", "start")
  /\ reported = [s \in Sessions |-> NoReport]

Init ==
  /\ WizardInit
  /\ arg = <<>>
  /\ ret = NotCalled

\* ------------------------------------------------------------ details step
\* the exit/quit guard of the details form
IsSentinel(v) == lower(strip(v)) \in {<<"e", "x", "i", "t">>, <<"q", "u", "i", "t">>}

\* details_outcome without the exit/quit guard
details_outcome_no_guard(n, r, l) ==
  IF strip(n) = <<>> \/ ~validate_regno(strip(r)).ok \/ ~validate_rollno(strip(l)).ok
    THEN "invalid"
  ELSE "ok"

\* details_outcome that does not validate the roll number
details_outcome_no_roll(n, r, l) ==
  IF IsSentinel(n) \/ IsSentinel(r) \/ IsSentinel(l) THEN "exit"
  ELSE IF strip(n) = <<>> \/ ~validate_regno(strip(r)).ok THEN "invalid"
  ELSE "ok"

\* the outcome of the Continue button: "exit", "invalid" or "ok"
details_outcome(n, r, l) ==
  IF IsSentinel(n) \/ IsSentinel(r) \/ IsSentinel(l) THEN "exit"
  ELSE IF strip(n) = <<>> \/ ~validate_regno(strip(r)).ok \/ ~validate_rollno(strip(l)).ok
    THEN "invalid"
  ELSE "ok"

\* Continue that holds the fields as typed, untrimmed
Continue_untrimmed(s, forms) ==
  /\ step[s] = "details"
  /\ pc[s] = "idle"
  /\ \E f \in forms :
       LET n == f[1]
           r == f[2]
           l == f[3]
           out == details_outcome(n, r, l)
       IN IF out = "ok"
            THEN /\ name' = [name EXCEPT ![s] = n]
                 /\ regno' = [regno EXCEPT ![s] = r]
                 /\ rollno' = [rollno EXCEPT ![s] = l]
                 /\ step' = [step EXCEPT ![s] = "topic"]
                 /\ last_run' = [Ran(s, "to_topic") EXCEPT !.form = <<n, r, l>>]
            ELSE /\ UNCHANGED <<name, regno, rollno, step>>
                 /\ last_run' = [Ran(s, out) EXCEPT !.form = <<n, r, l>>]
  /\ UNCHANGED <<table, now, topic, pc, existing, df_final>>
  /\ UNCHANGED <<reported, called>>

\* Continue pressed in the details form with one of the inputs forms
Continue(s, forms) ==
  /\ step[s] = "details"
  /\ pc[s] = "idle"
  /\ \E f \in forms :
       LET n == f[1]
           r == f[2]
           l == f[3]
           out == details_outcome(n, r, l)
       IN IF out = "ok"
            THEN /\ name' = [name EXCEPT ![s] = strip(n)]
                 /\ regno' = [regno EXCEPT ![s] = strip(r)]
                 /\ rollno' = [rollno EXCEPT ![s] = strip(l)]
                 /\ step' = [step EXCEPT ![s] = "topic"]
                 /\ last_run' = [Ran(s, "to_topic") EXCEPT !.form = <<n, r, l>>]
            ELSE /\ UNCHANGED <<name, regno, rollno, step>>
                 /\ last_run' = [Ran(s, out) EXCEPT !.form = <<n, r, l>>]
  /\ UNCHANGED <<table, now, topic, pc, existing, df_final>>
  /\ UNCHANGED <<reported, called>>

\* -------------------------------------------------------------- topic step
\* whether the loaded frame holds a row for register number r
reg_exists(df, r) == df.some /\ \E i \in 1..Len(df.rows) : df.rows[i].regno = r

\* KeepAsIs that stamps the kept row with the current time
KeepAsIs_restamp(s) ==
  /\ step[s] = "topic"
  /\ pc[s] = "idle"
  /\ \E readable \in ReadOutcomes : reg_exists(load_sheet_df(table, readable), regno[s])
  /\ table' = [table EXCEPT !.rows =
                 [i \in 1..Len(table.rows) |->
                    IF table.rows[i].regno = regno[s]
                      THEN [table.rows[i] EXCEPT !.ts = now]
                      ELSE table.rows[i]]]
  /\ last_run' = [Ran(s, "kept") EXCEPT !.edit_choice = "No -- keep as is"]
  /\ UNCHANGED <<now, session, pc, existing, df_final>>
  /\ UNCHANGED <<reported, called>>

\* the existing-submission radio is shown and answers "No -- keep as is"
KeepAsIs(s) ==
  /\ step[s] = "topic"
  /\ pc[s] = "idle"
  /\ \E readable \in ReadOutcomes : reg_exists(load_sheet_df(table, readable), regno[s])
  /\ last_run' = [Ran(s, "kept") EXCEPT !.edit_choice = "No -- keep as is"]
  /\ UNCHANGED <<table, now, session, pc, existing, df_final>>
  /\ UNCHANGED <<reported, called>>

\* the topic form is rendered when no row is found (or the load failed), or
\* when the radio answers "Yes -- edit topic"; the set of the radio's answers
TopicFormChoices(s) ==
  { IF reg_exists(load_sheet_df(table, readable), regno[s])
      THEN "Yes -- edit topic" ELSE "none" : readable \in ReadOutcomes }

\* Back pressed in the topic form
back_to_details(s) ==
  /\ step[s] = "topic"
  /\ pc[s] = "idle"
  /\ \E c \in TopicFormChoices(s) :
       last_run' = [Ran(s, "back") EXCEPT !.edit_choice = c]
  /\ step' = [step EXCEPT ![s] = "details"]
  /\ UNCHANGED <<table, now, name, regno, rollno, topic, pc, existing,
                 df_final>>
  /\ UNCHANGED <<reported, called>>

\* topics_to_check without the exclusion of the register number r
topics_to_check_all(df_check, r) ==
  IF df_check.some /\ df_check.topic_col = "Topic"
    THEN [i \in 1..Len(df_check.rows) |-> df_check.rows[i].topic]
    ELSE <<>>

\* the corpus of the similarity check: the topics of the rows of the loaded
\* frame whose register number is not r
topics_to_check(df_check, r) ==
  IF df_check.some /\ df_check.topic_col = "Topic"
    THEN LET others == SelectSeq(df_check.rows, LAMBDA row : row.regno # r)
         IN [i \in 1..Len(others) |-> others[i].topic]
    ELSE <<>>

\* similar_list: the corpus entries the submitted text matches
similar_list(t, corpus) == SelectSeq(corpus, LAMBDA c : TopicMatches(t, c))

\* CheckAndContinue that holds the text as typed, untrimmed
CheckAndContinue_untrimmed(s, texts) ==
  /\ step[s] = "topic"
  /\ pc[s] = "idle"
  /\ \E c \in TopicFormChoices(s), t \in texts :
       IF strip(t) = <<>>
         THEN /\ last_run' = [Ran(s, "empty_topic") EXCEPT !.form = <<t>>,
                                                           !.edit_choice = c]
              /\ UNCHANGED <<topic, step, reported>>
         ELSE \E readable \in ReadOutcomes :
                LET df_check == load_sheet_df(table, readable)
                    corpus  == topics_to_check(df_check, regno[s])
                    similar == similar_list(t, corpus)
                    shown   == [Ran(s, "to_confirm") EXCEPT
                                  !.form = <<t>>, !.edit_choice = c,
                                  !.readable = ~df_check.warned,
                                  !.corpus = corpus, !.similar = similar]
                IN \/ /\ similar # <<>>
                      /\ last_run' = [shown EXCEPT !.out = "similar_stop",
                                                   !.change_choice = "Yes -- change topic"]
                      /\ UNCHANGED <<topic, step, reported>>
                   \/ /\ last_run' = [shown EXCEPT !.change_choice =
                                        IF similar # <<>> THEN "No -- keep this topic"
                                                          ELSE "none"]
                      /\ topic' = [topic EXCEPT ![s] = t]
                      /\ step' = [step EXCEPT ![s] = "confirm"]
                      /\ reported' = [reported EXCEPT ![s] = similar]
  /\ UNCHANGED <<table, now, name, regno, rollno, pc, existing, df_final>>
  /\ UNCHANGED called

\* Check & Continue pressed in the topic form with one of the texts
CheckAndContinue(s, texts) ==
  /\ step[s] = "topic"
  /\ pc[s] = "idle"
  /\ \E c \in TopicFormChoices(s), t \in texts :
       IF strip(t) = <<>>
         THEN /\ last_run' = [Ran(s, "empty_topic") EXCEPT !.form = <<t>>,
                                                           !.edit_choice = c]
              /\ UNCHANGED <<topic, step, reported>>
         ELSE \E readable \in ReadOutcomes :
                LET df_check == load_sheet_df(table, readable)
                    corpus  == topics_to_check(df_check, regno[s])
                    similar == similar_list(t, corpus)
                    shown   == [Ran(s, "to_confirm") EXCEPT
                                  !.form = <<t>>, !.edit_choice = c,
                                  !.readable = ~df_check.warned,
                                  !.corpus = corpus, !.similar = similar]
                IN \/ /\ similar # <<>>
                      /\ last_run' = [shown EXCEPT !.out = "similar_stop",
                                                   !.change_choice = "Yes -- change topic"]
                      /\ UNCHANGED <<topic, step, reported>>
                   \/ /\ last_run' = [shown EXCEPT !.change_choice =
                                        IF similar # <<>> THEN "No -- keep this topic"
                                                          ELSE "none"]
                      /\ topic' = [topic EXCEPT ![s] = strip(t)]
                      /\ step' = [step EXCEPT ![s] = "confirm"]
                      /\ reported' = [reported EXCEPT ![s] = similar]
  /\ UNCHANGED <<table, now, name, regno, rollno, pc, existing, df_final>>
  /\ UNCHANGED called

\* ------------------------------------------------------------ confirm step
\* the four values the confirm page displays
Held(s) == <<name[s], regno[s], rollno[s], topic[s]>>

\* Back pressed on the confirm page
Back(s) ==
  /\ step[s] = "confirm"
  /\ pc[s] = "idle"
  /\ step' = [step EXCEPT ![s] = "topic"]
  /\ last_run' = [Ran(s, "confirm_back") EXCEPT !.form = Held(s)]
  /\ UNCHANGED <<table, now, name, regno, rollno, topic, pc, existing,
                 df_final>>
  /\ reported' = [reported EXCEPT ![s] = NoReport]
  /\ UNCHANGED called

\* EditFields that clears the held values as a reset does
EditFields_clearing(s) ==
  /\ step[s] = "confirm"
  /\ pc[s] = "idle"
  /\ step' = [step EXCEPT ![s] = "details"]
  /\ name' = [name EXCEPT ![s] = <<>>]
  /\ regno' = [regno EXCEPT ![s] = <<>>]
  /\ rollno' = [rollno EXCEPT ![s] = <<>>]
  /\ topic' = [topic EXCEPT ![s] = <<>>]
  /\ last_run' = [Ran(s, "confirm_edit") EXCEPT !.form = Held(s)]
  /\ UNCHANGED <<table, now, pc, existing, df_final>>
  /\ reported' = [reported EXCEPT ![s] = NoReport]
  /\ UNCHANGED called

\* Edit fields pressed on the confirm page
EditFields(s) ==
  /\ step[s] = "confirm"
  /\ pc[s] = "idle"
  /\ step' = [step EXCEPT ![s] = "details"]
  /\ last_run' = [Ran(s, "confirm_edit") EXCEPT !.form = Held(s)]
  /\ UNCHANGED <<table, now, name, regno, rollno, topic, pc, existing,
                 df_final>>
  /\ reported' = [reported EXCEPT ![s] = NoReport]
  /\ UNCHANGED called

\* df_new: the one-row frame of the held values and the timestamp
df_new(s, timestamp) ==
  [name |-> name[s], regno |-> regno[s], rollno |-> rollno[s], topic |-> topic[s],
   ts |-> timestamp]

\* merge that appends without removing the register number's rows
merge_append(loaded, row) ==
  IF loaded.some THEN Frame(loaded.rows \o <<row>>) ELSE Frame(<<row>>)

\* merge that keeps the register number's stored row when there is one
merge_keep_old(loaded, row) ==
  IF loaded.some /\ \E i \in 1..Len(loaded.rows) : loaded.rows[i].regno = row.regno
    THEN loaded
    ELSE IF loaded.some THEN Frame(loaded.rows \o <<row>>) ELSE Frame(<<row>>)

\* the merge of the loaded frame with the new row: rows of the loaded frame
\* with the new row's register number are removed and the new row appended
merge(loaded, row) ==
  IF loaded.some
    THEN Frame(SelectSeq(loaded.rows, LAMBDA x : x.regno # row.regno) \o <<row>>)
    ELSE Frame(<<row>>)

\* Save pressed on the confirm page: the handler takes the timestamp, loads
\* the table and merges; the write is its next step
Save(s) ==
  /\ step[s] = "confirm"
  /\ pc[s] = "idle"
  /\ now < MaxClock
  /\ now' = now + 1
  /\ \E readable \in ReadOutcomes :
       LET loaded == load_sheet_df(table, readable)
       IN /\ existing' = [existing EXCEPT ![s] = loaded]
          /\ df_final' = [df_final EXCEPT ![s] = merge(loaded, df_new(s, now))]
          /\ last_run' = [Ran(s, "saving") EXCEPT !.form = Held(s),
                                                  !.readable = ~loaded.warned]
  /\ pc' = [pc EXCEPT ![s] = "write"]
  /\ UNCHANGED <<table, session>>
  /\ UNCHANGED <<reported, called>>

\* the rows of the loaded frame that the merged frame no longer holds
Dropped(s) ==
  SelectSeq(existing[s].rows,
            LAMBDA x : \A i \in 1..Len(df_final[s].rows) : df_final[s].rows[i] # x)

\* finish_and_reset: back to the details step with every field cleared
finish_and_reset(s) ==
  /\ step' = [step EXCEPT ![s] = "details"]
  /\ name' = [name EXCEPT ![s] = <<>>]
  /\ regno' = [regno EXCEPT ![s] = <<>>]
  /\ rollno' = [rollno EXCEPT ![s] = <<>>]
  /\ topic' = [topic EXCEPT ![s] = <<>>]

\* the rows of the table that the merged frame does not hold
Clobbered(s) ==
  SelectSeq(table.rows,
            LAMBDA x : \A i \in 1..Len(df_final[s].rows) : df_final[s].rows[i] # x)

\* the record of the write of session s
Wrote(s, written) ==
  [Ran(s, IF written THEN "saved" ELSE "save_failed") EXCEPT
     !.form = Held(s), !.readable = ~existing[s].warned, !.dropped = Dropped(s),
     !.written = written,
     !.clobbered = IF written THEN Clobbered(s) ELSE <<>>,
     !.total = IF written THEN Len(df_final[s].rows) ELSE 0]

\* Write that merges the new row into the table as it is at the write
Write_upsert(s) ==
  /\ pc[s] = "write"
  /\ \E written \in BOOLEAN :
       /\ table' = save_df_to_sheet(table,
                     merge(load_sheet_df(table, TRUE),
                           df_final[s].rows[Len(df_final[s].rows)]), written)
       /\ IF written
            THEN finish_and_reset(s) /\ reported' = [reported EXCEPT ![s] = NoReport]
            ELSE UNCHANGED <<session, reported>>
       /\ last_run' = Wrote(s, written)
  /\ pc' = [pc EXCEPT ![s] = "idle"]
  /\ existing' = [existing EXCEPT ![s] = None]
  /\ df_final' = [df_final EXCEPT ![s] = None]
  /\ UNCHANGED now
  /\ UNCHANGED called

\* Write that resets the wizard whether or not the write succeeded
Write_reset_always(s) ==
  /\ pc[s] = "write"
  /\ \E written \in BOOLEAN :
       /\ table' = save_df_to_sheet(table, df_final[s], written)
       /\ finish_and_reset(s)
       /\ reported' = [reported EXCEPT ![s] = NoReport]
       /\ last_run' = Wrote(s, written)
  /\ pc' = [pc EXCEPT ![s] = "idle"]
  /\ existing' = [existing EXCEPT ![s] = None]
  /\ df_final' = [df_final EXCEPT ![s] = None]
  /\ UNCHANGED now
  /\ UNCHANGED called

\* the save handler writes the merged frame; on success it reports the count
\* and resets, on failure it reports the failure and stays on the page
Write(s) ==
  /\ pc[s] = "write"
  /\ \E written \in BOOLEAN :
       /\ table' = save_df_to_sheet(table, df_final[s], written)
       /\ IF written
            THEN finish_and_reset(s) /\ reported' = [reported EXCEPT ![s] = NoReport]
            ELSE UNCHANGED <<session, reported>>
       /\ last_run' = Wrote(s, written)
  /\ pc' = [pc EXCEPT ![s] = "idle"]
  /\ existing' = [existing EXCEPT ![s] = None]
  /\ df_final' = [df_final EXCEPT ![s] = None]
  /\ UNCHANGED now
  /\ UNCHANGED called

\* -------------------------------------------------------------- done step
\* New submission pressed on the done page.  No handler sets the step to
\* "done" (see C19_StepsHoldValidatedValues), so this is not a step of Next.
NewSubmission(s) ==
  /\ step[s] = "done"
  /\ pc[s] = "idle"
  /\ finish_and_reset(s)
  /\ last_run' = Ran(s, "reset")
  /\ UNCHANGED <<table, now, pc, existing, df_final>>
  /\ UNCHANGED <<reported, called>>

\* ----------------------------------------------------------- specification
\* a script run of session s, its text inputs drawn from forms and texts
Wizard(s, forms, texts) ==
  \/ Continue(s, forms)
  \/ KeepAsIs(s)
  \/ back_to_details(s)
  \/ CheckAndContinue(s, texts)
  \/ Back(s)
  \/ EditFields(s)
  \/ Save(s)
  \/ Write(s)

\* two sessions on one backing table
Next == \E s \in Sessions : Wizard(s, FewDetailsInputs, FewTopicInputs)

Spec == Init /\ [][Next]_vars

\* one session alone, with the wider inputs
NextSolo == Wizard("s1", DetailsInputs, TopicInputs)

SpecSolo == Init /\ [][NextSolo]_vars

\* ------------------------------------------------- the validators alone
\* the register numbers the validators are called on: the prefix followed by
\* every two ASCII digits and by Arabic-Indic digits; 13 digits that differ
\* from the prefix in one place; and strings that are not 13 digits (12 and
\* 14 digits, a letter, white space, the empty string)
ReplaceAt(s, i, c) == [j \in 1..Len(s) |-> IF j = i THEN c ELSE s[j]]

RegStrings ==
  {Reg(x, y) : x \in AsciiDigits, y \in AsciiDigits}
    \cup {Reg(ArabicZero, ArabicEight), Reg(ArabicEight, ArabicZero)}
    \cup {ReplaceAt(Reg(x[1], x[2]), i, "5") :
            x \in {<<"0", "7">>, <<"4", "8">>, <<"0", "0">>, <<"4", "9">>}, i \in 1..11}
    \cup {REG_PREFIX \o <<"0", x[1], x[2]>> :
            x \in {<<"0", "7">>, <<"4", "8">>, <<"4", "9">>}}
    \cup {REG_PREFIX \o <<"7">>, Reg07Padded, Reg("4", "x"), Reg("-", "7"), <<>>}

\* the roll numbers the validators are called on: 23, d or D, 12 and every
\* two ASCII digits, or Arabic-Indic digits; and strings not of that shape
RollStrings ==
  {Roll(d, x, y) : d \in {"d", "D"}, x \in AsciiDigits, y \in AsciiDigits}
    \cup {Roll("d", ArabicZero, ArabicEight), Roll("D", ArabicZero, ArabicEight)}
    \cup {Roll("e", "0", "1"), Roll("1", "0", "8"), Roll01Padded,
          <<" ">> \o Roll08, Roll("d", "0", "x"), Roll("D", "a", "b"),
          <<"2", "3", "d", "1", "2", "0">>, Roll01 \o <<"1">>,
          <<"2", "3", "d", "1", "3", "0", "1">>, <<"3", "2", "d", "1", "2", "0", "1">>,
          <<"2", "3", "d", "d", "1", "2", "0", "1">>}

ValidatorInputs == RegStrings \cup RollStrings

\* a validator is called on one string
InitValidators ==
  /\ WizardInit
  /\ arg \in ValidatorInputs
  /\ ret = NotCalled

\* the call validate_regno(arg)
CallValidateRegno ==
  /\ ret.fn = "none"
  /\ ret' = [fn |-> "validate_regno", ok |-> validate_regno(arg).ok,
             msg |-> validate_regno(arg).msg, df |-> None]
  /\ UNCHANGED <<arg, table, now, session, pc, existing, df_final, last_run, reported>>

\* the call validate_rollno(arg)
CallValidateRollno ==
  /\ ret.fn = "none"
  /\ ret' = [fn |-> "validate_rollno", ok |-> validate_rollno(arg).ok,
             msg |-> validate_rollno(arg).msg, df |-> None]
  /\ UNCHANGED <<arg, table, now, session, pc, existing, df_final, last_run, reported>>

NextValidators == CallValidateRegno \/ CallValidateRollno

SpecValidators == InitValidators /\ [][NextValidators]_vars

\* ------------------------------------------------------ the store alone
\* the rows the store is given: names and topics that are plain text, an NA
\* word or a numeral, under two register numbers
StoreRows ==
  {[name |-> n, regno |-> r, rollno |-> Roll01, topic |-> t, ts |-> 0] :
     n \in {NameAb, <<"N", "A">>}, r \in {Reg07, Reg48},
     t \in {<<"a", "b">>, <<"N", "A">>, <<"0", "7">>, <<"x", "y">>}}

\* the tables T: one row, or two rows of different register numbers in
\* either order
StoreTables ==
  {<<r>> : r \in StoreRows}
    \cup {<<p[1], p[2]>> : p \in {q \in StoreRows \X StoreRows : q[1].regno # q[2].regno}}

InitStore ==
  /\ WizardInit
  /\ arg \in StoreTables
  /\ ret = NotCalled

\* save_df(T)
CallSave ==
  /\ ret.fn = "none"
  /\ table' = save_df(Frame(arg))
  /\ ret' = [fn |-> "save_df", ok |-> TRUE, msg |-> "", df |-> None]
  /\ UNCHANGED <<arg, now, session, pc, existing, df_final, last_run, reported>>

\* load_existing_df() after the save
CallLoad ==
  /\ ret.fn = "save_df"
  /\ \E readable \in ReadOutcomes :
       ret' = [fn |-> "load_existing_df", ok |-> readable, msg |-> "",
               df |-> load_existing_df(table, readable)]
  /\ UNCHANGED <<arg, table, now, session, pc, existing, df_final, last_run, reported>>

\* save_df of the frame that was loaded
CallSaveLoaded ==
  /\ ret.fn = "load_existing_df"
  /\ ret.df.some
  /\ table' = save_df(ret.df)
  /\ ret' = [fn |-> "save_df(load_existing_df())", ok |-> TRUE, msg |-> "",
             df |-> ret.df]
  /\ UNCHANGED <<arg, now, session, pc, existing, df_final, last_run, reported>>

NextStore == CallSave \/ CallLoad \/ CallSaveLoaded

SpecStore == InitStore /\ [][NextStore]_vars

\* one session alone, with the inputs of the end-to-end scenario
NextScenario == Wizard("s1", ScenarioDetailsInputs, ScenarioTopicInputs)

SpecScenario == Init /\ [][NextScenario]_vars

\* ------------------------------------------------------------------ claims
\* the rows of the table with register number r
RowsOf(r) == SelectSeq(table.rows, LAMBDA x : x.regno = r)

\* the step is a script run of session s
RunBy(s) == last_run'.sess = s

\* the step is the Continue handler of session s
ContinueStep(s) == step[s] = "details" /\ pc[s] = "idle" /\ RunBy(s)

\* the step is a topic-step run of session s
TopicStep(s) == step[s] = "topic" /\ pc[s] = "idle" /\ RunBy(s)

\* the step is the write of the save handler of session s
WriteStep(s) == pc[s] = "write" /\ RunBy(s)

HeldUnchanged(s) ==
  /\ name'[s] = name[s]
  /\ regno'[s] = regno[s]
  /\ rollno'[s] = rollno[s]
  /\ topic'[s] = topic[s]

HeldCleared(s) ==
  name'[s] = <<>> /\ regno'[s] = <<>> /\ rollno'[s] = <<>> /\ topic'[s] = <<>>

\* C1: in every reachable state, whatever the saves of the two sessions and
\* their interleaving, the stored table holds at most one row per register
\* number.
C1_OneRowPerRegister ==
  \A i, j \in 1..Len(table.rows) :
    table.rows[i].regno = table.rows[j].regno => i = j

\* C1 witness: a save has overwritten a row of its own register number that
\* another session wrote after this save's (successful) load.
C1_Witness ==
  /\ last_run.out = "saved"
  /\ last_run.readable
  /\ last_run.dropped = <<>>
  /\ \E i \in 1..Len(last_run.clobbered) : last_run.clobbered[i].regno = last_run.form[2]
  /\ Len(RowsOf(last_run.form[2])) = 1

\* C2: a successful save for a register number R whose stored row holds a
\* different topic leaves exactly one row for R, holding the topic just saved.
C2_Upsert ==
  [][\A s \in Sessions :
       (/\ WriteStep(s)
        /\ last_run'.written
        /\ \E i \in 1..Len(table.rows) :
             table.rows[i].regno = regno[s] /\ table.rows[i].topic # topic[s])
       => LET rows == SelectSeq(table'.rows, LAMBDA x : x.regno = regno[s])
          IN Len(rows) = 1 /\ rows[1].topic = topic[s]]_vars

\* C2 witness: a save has replaced the row of its register number, and the
\* replaced row held another topic.
C2_Witness ==
  /\ last_run.out = "saved"
  /\ Len(last_run.dropped) = 1
  /\ last_run.dropped[1].regno = last_run.form[2]
  /\ last_run.dropped[1].topic # last_run.form[4]
  /\ Len(RowsOf(last_run.form[2])) = 1
  /\ RowsOf(last_run.form[2])[1].topic = last_run.form[4]

\* C3: a successful write overwrites the whole table with the writer's merged
\* frame: the rows after the write are the rows of that frame, so a row of the
\* table that the writer's load did not see is gone.
C3_WholeTableOverwrite ==
  [][\A s \in Sessions :
       (WriteStep(s) /\ last_run'.written)
       => /\ \A i \in 1..Len(table'.rows) :
               \E j \in 1..Len(df_final[s].rows) : df_final[s].rows[j] = table'.rows[i]
          /\ \A i \in 1..Len(table.rows) :
               (\A j \in 1..Len(df_final[s].rows) : df_final[s].rows[j] # table.rows[i])
               => \A k \in 1..Len(table'.rows) : table'.rows[k] # table.rows[i]]_vars

\* C3 witness (lost update): a save whose load succeeded has reported success
\* and removed the row another session had saved for a different register
\* number; the table holds no row for that register number.
C3_LostUpdate ==
  /\ last_run.out = "saved"
  /\ last_run.readable
  /\ \E i \in 1..Len(last_run.clobbered) :
       /\ last_run.clobbered[i].regno # last_run.form[2]
       /\ RowsOf(last_run.clobbered[i].regno) = <<>>
  /\ Len(RowsOf(last_run.form[2])) = 1

\* C4: a successful save moves the wizard to the step done with the four held
\* values cleared.
C4_SaveGoesToDone ==
  [][\A s \in Sessions :
       (WriteStep(s) /\ last_run'.written)
       => step'[s] = "done" /\ HeldCleared(s)]_vars

\* C5: a failed save leaves the wizard on the confirm page with the four held
\* values and the table unchanged, and no write pending: nothing is written
\* again until Save is pressed again.
C5_FailedSaveStays ==
  [][\A s \in Sessions :
       (WriteStep(s) /\ ~last_run'.written)
       => /\ step'[s] = "confirm"
          /\ HeldUnchanged(s)
          /\ table' = table
          /\ pc'[s] = "idle"]_vars

\* C5 witness: a save has failed.
C5_Witness ==
  /\ last_run.out = "save_failed"
  /\ step[last_run.sess] = "confirm"
  /\ Held(last_run.sess) = last_run.form
  /\ topic[last_run.sess] # <<>>

\* the three fields of a details form pass the validation of the Continue
\* handler: the name is not blank and both validators accept
FormValid(f) ==
  /\ strip(f[1]) # <<>>
  /\ validate_regno(strip(f[2])).ok
  /\ validate_rollno(strip(f[3])).ok

SentinelWords == {<<"e", "x", "i", "t">>, <<"q", "u", "i", "t">>}

\* what the Continue handler of session s does when it advances (go) and
\* when it does not: the held values become the trimmed inputs, or nothing
\* changes; the table is not written either way
DetailsContract(s, go) ==
  LET f == last_run'.form
  IN /\ step'[s] = "topic" <=> go
     /\ go => /\ name'[s] = strip(f[1])
              /\ regno'[s] = strip(f[2])
              /\ rollno'[s] = strip(f[3])
     /\ ~go => step'[s] = "details" /\ HeldUnchanged(s)
     /\ table' = table
     /\ pc'[s] = "idle"

\* C6: Continue advances to the topic step exactly when the name is not blank
\* and the trimmed register and roll numbers pass their validators; it then
\* holds the trimmed inputs, and otherwise changes nothing.
C6_AdvanceIffValid ==
  [][\A s \in Sessions :
       ContinueStep(s) => DetailsContract(s, FormValid(last_run'.form))]_vars

\* C6 as amended: Continue advances exactly when, in addition, no field is
\* exit or quit after trimming, whatever its case.
C6_AdvanceIffValidAndNoSentinel ==
  [][\A s \in Sessions :
       ContinueStep(s) =>
         DetailsContract(s,
           /\ FormValid(last_run'.form)
           /\ \A i \in 1..3 : lower(strip(last_run'.form[i])) \notin SentinelWords)]_vars

\* C6 witness: Continue has advanced on inputs that needed trimming.
C6_Witness ==
  /\ last_run.out = "to_topic"
  /\ step[last_run.sess] = "topic"
  /\ last_run.form[2] # regno[last_run.sess]
  /\ regno[last_run.sess] = strip(last_run.form[2])
  /\ name[last_run.sess] = strip(last_run.form[1])
  /\ rollno[last_run.sess] = strip(last_run.form[3])

\* C7: when a field of the details form is exit or quit, whatever its case,
\* Continue does not advance, the held values are unchanged and the table is
\* not written, also when the other fields are valid.
C7_SentinelAborts ==
  [][\A s \in Sessions :
       (/\ ContinueStep(s)
        /\ \E i \in 1..3 : lower(last_run'.form[i]) \in SentinelWords)
       => /\ step'[s] = "details"
          /\ HeldUnchanged(s)
          /\ table' = table
          /\ pc'[s] = "idle"]_vars

\* C7 witness: Continue has aborted on a form whose name is a sentinel and
\* whose register and roll numbers are valid.
C7_Witness ==
  /\ last_run.out = "exit"
  /\ lower(last_run.form[1]) \in SentinelWords
  /\ validate_regno(strip(last_run.form[2])).ok
  /\ validate_rollno(strip(last_run.form[3])).ok
  /\ step[last_run.sess] = "details"

\* C8: in the topic step, when the table holds a row for the held register
\* number and the user keeps the existing topic, the table is unchanged and
\* the wizard stays in the topic step.
C8_KeepWritesNothing ==
  [][\A s \in Sessions :
       (/\ TopicStep(s)
        /\ last_run'.edit_choice = "No -- keep as is"
        /\ RowsOf(regno[s]) # <<>>)
       => /\ table' = table
          /\ step'[s] = "topic"
          /\ HeldUnchanged(s)
          /\ pc'[s] = "idle"]_vars

\* C8 witness: the user has kept the topic of a stored row.
C8_Witness ==
  /\ last_run.out = "kept"
  /\ last_run.edit_choice = "No -- keep as is"
  /\ step[last_run.sess] = "topic"
  /\ RowsOf(regno[last_run.sess]) # <<>>

OthersTopics(r) ==
  LET others == SelectSeq(table.rows, LAMBDA x : x.regno # r)
  IN [i \in 1..Len(others) |-> others[i].topic]

\* the step is a similarity check of session s
CheckStep(s) == TopicStep(s) /\ last_run'.out \in {"to_confirm", "similar_stop"}

\* a text that no stored row of another register number matches is not
\* flagged and advances to confirm
UnmatchedAdvances(s) ==
  (\A i \in 1..Len(table.rows) :
     table.rows[i].regno # regno[s] => ~TopicMatches(last_run'.form[1], table.rows[i].topic))
  => last_run'.similar = <<>> /\ step'[s] = "confirm"

\* C10: the corpus of every similarity check is exactly the topics of the
\* stored rows whose register number differs from the held one.
C10_CorpusIsOthersTopics ==
  [][\A s \in Sessions :
       CheckStep(s) => last_run'.corpus = OthersTopics(regno[s]) /\ UnmatchedAdvances(s)]_vars

\* C10 as amended: the corpus is exactly those topics when the check's load of
\* the table succeeds and is empty when it fails; either way the held register
\* number's own row is never compared against.
C10_CorpusIsOthersTopicsAsLoaded ==
  [][\A s \in Sessions :
       CheckStep(s)
       => /\ last_run'.corpus = IF last_run'.readable THEN OthersTopics(regno[s]) ELSE <<>>
          /\ UnmatchedAdvances(s)]_vars

\* C10 witness: the stored topic of the held register number was resubmitted,
\* the load succeeded, nothing was flagged and the wizard is in confirm.
C10_Witness ==
  /\ last_run.out = "to_confirm"
  /\ last_run.readable
  /\ last_run.similar = <<>>
  /\ step[last_run.sess] = "confirm"
  /\ \E i \in 1..Len(table.rows) :
       /\ table.rows[i].regno = regno[last_run.sess]
       /\ table.rows[i].topic = topic[last_run.sess]
       /\ TopicMatches(last_run.form[1], table.rows[i].topic)

\* the step is a navigation run of session s: Back or Edit fields on the
\* confirm page, or Back in the topic form
NavigationStep(s, out) == RunBy(s) /\ pc[s] = "idle" /\ last_run'.out = out

\* C11: on the confirm page Back moves the wizard to topic and Edit fields
\* moves it to details, and Back in the topic form moves it to details; each
\* leaves the four held values and the stored table unchanged.
C11_NavigationKeepsValues ==
  [][\A s \in Sessions :
       /\ (step[s] = "confirm" /\ NavigationStep(s, "confirm_back"))
            => step'[s] = "topic" /\ HeldUnchanged(s) /\ table' = table
       /\ (step[s] = "confirm" /\ NavigationStep(s, "confirm_edit"))
            => step'[s] = "details" /\ HeldUnchanged(s) /\ table' = table
       /\ (step[s] = "topic" /\ NavigationStep(s, "back"))
            => step'[s] = "details" /\ HeldUnchanged(s) /\ table' = table]_vars

\* C11 witness: Edit fields has returned the wizard to details from a confirm
\* page showing four non-empty values, which are still held, over a table
\* that holds a row.
C11_Witness ==
  /\ last_run.out = "confirm_edit"
  /\ step[last_run.sess] = "details"
  /\ Held(last_run.sess) = last_run.form
  /\ \A i \in 1..4 : last_run.form[i] # <<>>
  /\ table.rows # <<>>

\* a row as the wizard means to store it: a non-empty trimmed name and topic,
\* a register number and a roll number that pass their validators
WellFormedRow(row) ==
  /\ row.name # <<>> /\ strip(row.name) = row.name
  /\ validate_regno(row.regno).ok
  /\ validate_rollno(row.rollno).ok
  /\ row.topic # <<>> /\ strip(row.topic) = row.topic

\* C12: every row of the stored table, all of them written by the wizard, has
\* a non-empty trimmed name, a register number that passes validate_regno, a
\* roll number that passes validate_rollno and a non-empty trimmed topic,
\* whatever the sequence of wizard actions.
C12_StoredRowsWellFormed ==
  \A i \in 1..Len(table.rows) : WellFormedRow(table.rows[i])

\* C12 witness: a save has stored a row whose fields were typed with
\* surrounding white space, next to a row of another register number.
C12_Witness ==
  /\ last_run.out = "saved"
  /\ Len(table.rows) = 2
  /\ \E i \in 1..2 :
       /\ table.rows[i].regno = strip(Reg07Padded)
       /\ table.rows[i].name = strip(NamePadded)
       /\ table.rows[i].rollno = strip(Roll01Padded)

\* the end-to-end scenario run with register number r by session s, from the
\* details form to the saved row: Continue on <<Asha, r, 23d1201>> passes
\* both validators and advances to topic; over an empty table the topic
\* "Edge detection in images" is matched by nothing and advances to confirm;
\* the successful write then leaves exactly one row for r, with a timestamp,
\* and shows a count one above the number of rows before
Scenario(s, r) ==
  /\ (ContinueStep(s) /\ last_run'.form = <<Asha, r, Roll01>>)
       => /\ validate_regno(r).ok
          /\ validate_rollno(Roll01).ok
          /\ step'[s] = "topic"
          /\ <<name'[s], regno'[s], rollno'[s]>> = <<Asha, r, Roll01>>
  /\ (/\ TopicStep(s)
      /\ <<name[s], regno[s], rollno[s]>> = <<Asha, r, Roll01>>
      /\ table.rows = <<>>
      /\ last_run'.form = <<EdgeDetection>>)
       => /\ last_run'.similar = <<>>
          /\ step'[s] = "confirm"
          /\ topic'[s] = EdgeDetection
  /\ (/\ WriteStep(s)
      /\ Held(s) = <<Asha, r, Roll01, EdgeDetection>>
      /\ table.rows = <<>>
      /\ last_run'.written)
       => /\ Len(table'.rows) = 1
          /\ table'.rows[1].regno = r
          /\ table'.rows[1].name = Asha
          /\ table'.rows[1].topic = EdgeDetection
          /\ table'.rows[1].ts \in 0..MaxClock
          /\ last_run'.total = Len(table.rows) + 1

\* C13: the end-to-end scenario with the register number "23130910831007":
\* the details pass both validators and advance to topic, the topic advances
\* to confirm unmatched, and the save leaves exactly one row with that
\* register number and a timestamp, the count increased by 1.
C13_ScenarioAsWritten ==
  [][\A s \in Sessions : Scenario(s, Reg007)]_vars

\* C13 as amended: the scenario runs as described with the 13-digit register
\* number "2313091083107" (the prefix followed by 07).
C13_ScenarioThirteenDigits ==
  [][\A s \in Sessions : Scenario(s, Reg07)]_vars

\* C13 witness: the scenario has run to its end: the save of Asha's row
\* succeeded over an empty table, which now holds that single row.
C13_Witness ==
  /\ last_run.out = "saved"
  /\ last_run.form = <<Asha, Reg07, Roll01, EdgeDetection>>
  /\ last_run.clobbered = <<>>
  /\ last_run.total = 1
  /\ Len(table.rows) = 1
  /\ table.rows[1].regno = Reg07
  /\ table.rows[1].topic = EdgeDetection

\* validate_regno has been called on the string r and accepted it
RegnoAccepted(r) == ret.fn = "validate_regno" /\ arg = r /\ ret.ok

\* C14: validate_regno fails for the register string "23130910831049" and
\* passes for the register string "23130910831048".
C14_BoundaryAsWritten ==
  (ret.fn = "validate_regno")
  => /\ arg = REG_PREFIX \o <<"0", "4", "9">> => ~ret.ok
     /\ arg = REG_PREFIX \o <<"0", "4", "8">> => ret.ok

\* C14 as amended: validate_regno fails for the 13-digit register string
\* "2313091083149" (last two = 49), with the range message, and passes for
\* "2313091083148" (last two = 48); the 14-digit strings "23130910831049" and
\* "23130910831048" both fail, with the length message.
C14_BoundaryThirteenDigits ==
  (ret.fn = "validate_regno")
  => /\ arg = Reg49
          => ~ret.ok /\ ret.msg = "Last two digits must be between 01 and max."
     /\ arg = Reg48 => ret.ok /\ ret.msg = ""
     /\ arg \in {REG_PREFIX \o <<"0", "4", "9">>, REG_PREFIX \o <<"0", "4", "8">>}
          => ~ret.ok /\ ret.msg = "Register number must be exactly 13 digits."

\* C14 witness: validate_regno has accepted the register string ending in 48.
C14_Witness == RegnoAccepted(Reg48)

\* s is exactly 13 decimal digits
ThirteenDigits(s) == Len(s) = 13 /\ \A i \in 1..13 : s[i] \in Digits

\* the last two digits of s, parsed as an integer
LastTwo(s) == 10 * DigitVal[s[Len(s) - 1]] + DigitVal[s[Len(s)]]

\* C15: validate_regno accepts a string of exactly 13 decimal digits if and
\* only if it starts with the 11-character prefix and its last two digits
\* are an integer in 1..48 (so 0 and 49 and above fail, and so does every
\* other prefix); every string that is not exactly 13 decimal digits fails.
C15_RegnoAcceptedIff ==
  (ret.fn = "validate_regno")
  => /\ ThirteenDigits(arg)
          => (ret.ok <=> /\ SubSeq(arg, 1, 11) = REG_PREFIX
                         /\ LastTwo(arg) >= 1
                         /\ LastTwo(arg) <= 48)
     /\ ~ThirteenDigits(arg) => ~ret.ok

\* C15 witness: validate_regno has rejected 13 digits that differ from the
\* prefix in one place only and end in 07.
C15_Witness ==
  /\ ret.fn = "validate_regno"
  /\ ~ret.ok
  /\ ThirteenDigits(arg)
  /\ SubSeq(arg, 1, 11) # REG_PREFIX
  /\ SubSeq(arg, 1, 10) = SubSeq(REG_PREFIX, 1, 10)
  /\ LastTwo(arg) = 7

\* s has the shape 23, d or D, 12, two digits
RollShaped(s) ==
  /\ Len(s) = 7
  /\ s[1] = "2" /\ s[2] = "3" /\ s[3] \in {"d", "D"} /\ s[4] = "1" /\ s[5] = "2"
  /\ s[6] \in Digits /\ s[7] \in Digits

\* C16: validate_rollno rejects a string of the shape 23, d or D, 12, XY if
\* and only if XY is 08, 29 or 13, whichever the case of the letter (23D1208
\* and 23d1208 both fail); every string not of that shape is rejected.
C16_RollnoRejectedIff ==
  (ret.fn = "validate_rollno")
  => /\ RollShaped(arg)
          => (~ret.ok <=> <<arg[6], arg[7]>> \in {<<"0", "8">>, <<"2", "9">>, <<"1", "3">>})
     /\ arg \in {Roll("D", "0", "8"), Roll("d", "0", "8")} => ~ret.ok
     /\ ~RollShaped(arg) => ~ret.ok

\* C16 witness: validate_rollno has rejected 23D1208 for its reserved suffix.
C16_Witness ==
  /\ ret.fn = "validate_rollno"
  /\ arg = Roll("D", "0", "8")
  /\ ~ret.ok
  /\ ret.msg = "Roll suffix is reserved."

\* the set of the rows of a sequence of rows
RowSet(rows) == {rows[i] : i \in 1..Len(rows)}

\* C17: after save(T), saving the table that load returns stores a table
\* whose set of rows is that of T (order ignored, every field compared as the
\* text it shows).
C17_RoundTrip ==
  (ret.fn = "save_df(load_existing_df())") => RowSet(table.rows) = RowSet(arg)

\* C17, the tables that do survive: the round trip reproduces T when no name
\* and no topic of T is an NA word or a numeral.
C17_RoundTripOfPlainText ==
  (/\ ret.fn = "save_df(load_existing_df())"
   /\ \A i \in 1..Len(arg) :
        /\ arg[i].name \notin NAStrings /\ ~IsNumeral(arg[i].name)
        /\ arg[i].topic \notin NAStrings /\ ~IsNumeral(arg[i].topic))
  => RowSet(table.rows) = RowSet(arg)

\* C17, the loss: a table of two rows given out of order has been saved,
\* loaded and saved again, and the topic "NA" of one row is now missing.
C17_TopicLost ==
  /\ ret.fn = "save_df(load_existing_df())"
  /\ Len(arg) = 2
  /\ arg[1].regno = Reg48
  /\ arg[1].topic = <<"N", "A">>
  /\ table.rows[2].regno = Reg48
  /\ table.rows[2].topic = <<>>

\* the write of session s keeps every stored row of another register number
OthersRowsKept(s) ==
  \A i \in 1..Len(table.rows) :
    table.rows[i].regno # regno[s]
    => \E j \in 1..Len(table'.rows) : table'.rows[j] = table.rows[i]

\* C18: with one session, a successful save for a register number R leaves
\* every stored row of another register number in the table, unchanged, also
\* when the load before the write reported a read error.
C18_OthersRowsKept ==
  [][\A s \in Sessions :
       (WriteStep(s) /\ last_run'.written) => OthersRowsKept(s)]_vars

\* C18, the part that holds: the rows of other register numbers are kept by
\* a successful save whose load showed no read error.
C18_OthersRowsKeptWhenRead ==
  [][\A s \in Sessions :
       (WriteStep(s) /\ last_run'.written /\ last_run'.readable)
       => OthersRowsKept(s)]_vars

\* C18, the loss: a save whose load reported a read error has succeeded and
\* the table holds its row alone; the row stored for another register number
\* is gone.
C18_TableWiped ==
  /\ last_run.out = "saved"
  /\ ~last_run.readable
  /\ Len(table.rows) = 1
  /\ table.rows[1].regno = last_run.form[2]
  /\ \E i \in 1..Len(last_run.clobbered) :
       last_run.clobbered[i].regno # last_run.form[2]

\* C19: in every reachable state, a session whose step is topic or confirm
\* holds a non-empty name and a register number and a roll number that pass
\* their validators, and a session whose step is confirm also holds a
\* non-empty topic: confirm is never reached without a validated register
\* number.
C19_StepsHoldValidatedValues ==
  \A s \in Sessions :
    /\ step[s] \in {"topic", "confirm"}
         => /\ name[s] # <<>>
            /\ validate_regno(regno[s]).ok
            /\ validate_rollno(rollno[s]).ok
    /\ step[s] = "confirm" => topic[s] # <<>>
    /\ step[s] \in {"details", "topic", "confirm"}

\* C19 witness: Back on the confirm page has returned a session to the topic
\* step, all four values held, after a row was saved.
C19_Witness ==
  /\ last_run.out = "confirm_back"
  /\ step[last_run.sess] = "topic"
  /\ topic[last_run.sess] # <<>>
  /\ validate_regno(regno[last_run.sess]).ok
  /\ table.rows # <<>>

\* the rows of another register number than that of session s in the table
\* as written whose topic is, ignoring case, the topic session s saves
SameTopicRows(s) ==
  SelectSeq(table'.rows,
            LAMBDA x : x.regno # regno[s] /\ lower(x.topic) = lower(topic[s]))

\* C20: with two sessions on one table, a successful save stores a topic
\* that is, ignoring case, the stored topic of another register number only
\* if the similarity check of the saving session displayed that match before
\* the save.
C20_CheckStillValid ==
  [][\A s \in Sessions :
       (WriteStep(s) /\ last_run'.written)
       => \A i \in 1..Len(SameTopicRows(s)) :
            \E k \in 1..Len(reported[s]) :
              reported[s][k] = SameTopicRows(s)[i].topic]_vars

\* C20, the race: no table exists yet (so no load can have failed) and the
\* two sessions are both on the confirm page, with different register numbers
\* and the same topic, each after a similarity check that displayed no match.
C20_BothPassedTheCheck ==
  /\ ~table.exists
  /\ step["s1"] = "confirm" /\ step["s2"] = "confirm"
  /\ regno["s1"] # regno["s2"]
  /\ lower(topic["s1"]) = lower(topic["s2"])
  /\ reported["s1"] = <<>> /\ reported["s2"] = <<>>

\* C20, the outcome: a save whose load read the table has stored a topic that
\* is, ignoring case, the stored topic of another register number.
C20_DuplicateStored ==
  /\ last_run.out = "saved"
  /\ last_run.readable
  /\ Len(table.rows) = 2
  /\ table.rows[1].regno # table.rows[2].regno
  /\ lower(table.rows[1].topic) = lower(table.rows[2].topic)

====
